---- MODULE Spec2Model ----
(***************************************************************************)
(* Model of the DS1307 real-time-clock driver (src/src/DS1307Lib.cpp).     *)
(* The chip is its eight registers 0x00..0x07; the two-wire bus is a       *)
(* collaborator whose every transmission either is acknowledged or is not, *)
(* and whose burst read delivers all requested bytes or fewer.  A          *)
(* transmission that is not acknowledged leaves the chip untouched.        *)
(* Every driver operation is cut at its bus transactions, so the states    *)
(* between two transactions of one call are states of the model.           *)
(***************************************************************************)
EXTENDS Integers, Sequences, FiniteSets, TLC

VARIABLES
    regs,               \* chip registers 0x00..0x07
    lastTx,             \* bus: outcome of the most recent endTransmission
    busLog,             \* bus: phases issued by the current/last operation
    present, running, mode12_24, am_pm,                 \* driver statics
    clockout_en, default_out_state, clockout_divider,   \* driver statics
    pc,                 \* position inside the operation in progress
    op,                 \* name of the operation in progress / last completed
    arg,                \* <<tm>> parameter of the writeTime in progress
    regAddress,         \* regAddress parameter of the readReg in progress
    ret,                \* value returned by the last completed operation
    out,                \* <<tm>> filled in by the last readTime, or <<>>
    written,            \* <<[tm, mode12_24, am_pm]>> of the successful
                        \* writeTime that immediately precedes, or <<>>
    presentBefore,      \* value of present when the operation was called
    configured,         \* <<[en, level, divider]>> the acknowledged
                        \* configureClockOut that immediately precedes
                        \* was called with, or <<>>
    formatAssigned,     \* mode12_24 / am_pm were assigned since start-up
    conv                \* <<num, dToBcd(num), bcdToD(of that)>> of the
                        \* conversions called on their own

statics == <<present, running, mode12_24, am_pm,
             clockout_en, default_out_state, clockout_divider>>
vars == <<regs, lastTx, busLog, present, running, mode12_24, am_pm,
          clockout_en, default_out_state, clockout_divider,
          pc, op, arg, regAddress, ret, out, written, presentBefore,
          configured, formatAssigned, conv>>

(***************************************************************************)
(* C integer operators on uint8_t values                                   *)
(***************************************************************************)
RECURSIVE BitAnd(_, _)
BitAnd(a, b) ==
    IF a = 0 \/ b = 0 THEN 0
    ELSE (a % 2) * (b % 2) + 2 * BitAnd(a \div 2, b \div 2)

RECURSIVE BitOr(_, _)
BitOr(a, b) ==
    IF a = 0 THEN b
    ELSE IF b = 0 THEN a
    ELSE (IF (a % 2) + (b % 2) > 0 THEN 1 ELSE 0)
         + 2 * BitOr(a \div 2, b \div 2)

Bool(x) == x # 0

(***************************************************************************)
(* Register transcoding                                                    *)
(***************************************************************************)
dToBcd(num) == BitOr((num \div 10) * 16, num % 10) % 256

\* Variant that weighs the high nibble as sixteen.
bcdToD_Binary(num) == ((num \div 16) * 16 + BitAnd(num, 15)) % 256

bcdToD(num) == ((num \div 16) * 10 + BitAnd(num, 15)) % 256

\* TimeLib's year rebasing (tm.Year counts from 1970, the chip from 2000);
\* the value is truncated to the byte Wire.write / tm.Year can hold.
tmYearToY2k(Y) == (Y - 30) % 256

y2kYearToTm(Y) == (Y + 30) % 256

\* Variant whose 12-hour branch masks the hour with 0x3F, PM bit included.
decodeHourRegister_WideMask(hourReg) ==
    IF BitAnd(hourReg, 64) # 0
    THEN LET h0 == bcdToD(BitAnd(hourReg, 63))
             pm == BitAnd(hourReg, 32) # 0
             h1 == IF pm THEN (h0 + 12) % 256 ELSE h0
         IN  [hour |-> IF h1 = 24 THEN 0 ELSE h1,
              mode12_24 |-> TRUE, am_pm |-> pm]
    ELSE [hour |-> bcdToD(BitAnd(hourReg, 63)),
          mode12_24 |-> FALSE, am_pm |-> FALSE]

\* Variant whose 24-hour branch leaves am_pm as it was.
decodeHourRegister_StalePm(hourReg) ==
    IF BitAnd(hourReg, 64) # 0
    THEN LET h0 == bcdToD(BitAnd(hourReg, 31))
             pm == BitAnd(hourReg, 32) # 0
             h1 == IF pm THEN (h0 + 12) % 256 ELSE h0
         IN  [hour |-> IF h1 = 24 THEN 0 ELSE h1,
              mode12_24 |-> TRUE, am_pm |-> pm]
    ELSE [hour |-> bcdToD(BitAnd(hourReg, 63)),
          mode12_24 |-> FALSE, am_pm |-> am_pm]

\* Returns the decoded hour together with the two statics it assigns.
decodeHourRegister(hourReg) ==
    IF BitAnd(hourReg, 64) # 0
    THEN LET h0 == bcdToD(BitAnd(hourReg, 31))
             pm == BitAnd(hourReg, 32) # 0
             h1 == IF pm THEN (h0 + 12) % 256 ELSE h0
         IN  [hour |-> IF h1 = 24 THEN 0 ELSE h1,
              mode12_24 |-> TRUE, am_pm |-> pm]
    ELSE [hour |-> bcdToD(BitAnd(hourReg, 63)),
          mode12_24 |-> FALSE, am_pm |-> FALSE]

\* Reads the statics mode12_24 and am_pm.
encodeHourRegister(hour) ==
    IF mode12_24
    THEN LET r0 == IF hour = 0 \/ hour = 12 THEN dToBcd(12)
                   ELSE dToBcd(hour % 12)
             r1 == BitOr(r0, 64)
         IN  IF am_pm THEN BitOr(r1, 32) ELSE r1
    ELSE dToBcd(hour)

(***************************************************************************)
(* Inputs and initial chip images                                          *)
(***************************************************************************)
\* tm.Year counts from 1970: 55 is 2025, 30 is 2000, 129 is 2099.
TmScenario == [Second |-> 0, Minute |-> 5, Hour |-> 13, Wday |-> 2,
               Day |-> 27, Month |-> 1, Year |-> 55]
TmFirst == [Second |-> 0, Minute |-> 0, Hour |-> 0, Wday |-> 1,
            Day |-> 1, Month |-> 1, Year |-> 30]
TmLast == [Second |-> 59, Minute |-> 59, Hour |-> 23, Wday |-> 7,
           Day |-> 31, Month |-> 12, Year |-> 129]
Hours == 0 .. 23
TmInputs == {[TmScenario EXCEPT !.Hour = h] : h \in Hours}
            \cup {TmFirst, TmLast}

\* Seconds register of the chip at start: running (0x30), halted with a
\* count (0xD9).
InitSeconds == {48, 217}
\* Hour register of the chip at start: 23h (0x23), 1 AM in 12-hour
\* mode (0x41).
InitHours == {35, 65}
InitImage(s, h) ==
    [i \in 0 .. 7 |-> <<s, 89, h, 7, 49, 18, 153, 3>>[i + 1]]

\* (regAddress, value) pairs the caller passes to writeReg: halt the clock.
WriteRegInputs == {<<0, 128>>}
\* regAddress the caller passes to readReg: the control register.
ReadRegInputs == {7}
\* (clockout_en, default_out_state, clockout_divider) the caller assigns.
\* The last one has a divider outside 0..3.
ClockOutInputs == {<<TRUE, FALSE, 1>>, <<FALSE, TRUE, 2>>, <<TRUE, TRUE, 5>>}

Init ==
    /\ \E s \in InitSeconds, h \in InitHours : regs = InitImage(s, h)
    /\ lastTx = "none"
    /\ busLog = <<>>
    /\ present = FALSE
    /\ running = FALSE
    /\ mode12_24 = FALSE
    /\ am_pm = FALSE
    /\ clockout_en = FALSE
    /\ default_out_state = FALSE
    /\ clockout_divider = 0
    /\ pc = "idle"
    /\ op = "DS1307Clock"
    /\ arg = <<>>
    /\ regAddress = 0
    /\ ret = 0
    /\ out = <<>>
    /\ written = <<>>
    /\ presentBefore = FALSE
    /\ configured = <<>>
    /\ formatAssigned = FALSE
    /\ conv = <<>>

(***************************************************************************)
(* The bus                                                                 *)
(***************************************************************************)
Tx(ok) == [kind |-> "tx", ok |-> ok]
Req(ok) == [kind |-> "req", ok |-> ok]
TxOutcome(ok) == IF ok THEN "ok" ELSE "fail"

\* The successful writeTime stays on record for the one call that follows it.
KeepWritten ==
    IF op = "writeTime" /\ ret = 1 THEN written ELSE <<>>

\* So does the acknowledged configureClockOut.
KeepConfigured ==
    IF op = "configureClockOut" THEN configured ELSE <<>>

(***************************************************************************)
(* readTime                                                                *)
(***************************************************************************)
\* Variant that forgets the downgrade on a failed pointer transmission.
readTimePresent_OnlySet(ok) == IF ok THEN TRUE ELSE present

\* Variant that forgets the upgrade on a successful pointer transmission.
readTimePresent_OnlyClear(ok) == IF ok THEN present ELSE FALSE

readTimePresent(ok) == IF ok THEN TRUE ELSE FALSE

\* Variant that ignores the clock-halt bit.
readTimeResult_IgnoreCH(sec) == IF sec > 255 THEN 0 ELSE 1

readTimeResult(sec) == IF BitAnd(sec, 128) # 0 THEN 0 ELSE 1

readTimeDecode ==
    [Second |-> bcdToD(BitAnd(regs[0], 127)),
     Minute |-> bcdToD(regs[1]),
     Hour   |-> decodeHourRegister(regs[2]).hour,
     Wday   |-> bcdToD(regs[3]),
     Day    |-> bcdToD(regs[4]),
     Month  |-> bcdToD(regs[5]),
     Year   |-> y2kYearToTm(bcdToD(regs[6]))]

ReadTimePointer(ok) ==
    /\ pc = "idle"
    /\ op' = "readTime"
    /\ busLog' = <<Tx(ok)>>
    /\ lastTx' = TxOutcome(ok)
    /\ presentBefore' = present
    /\ present' = readTimePresent(ok)
    /\ written' = KeepWritten
    /\ configured' = KeepConfigured
    /\ out' = <<>>
    /\ IF ok THEN pc' = "rt_request" /\ UNCHANGED ret
             ELSE pc' = "idle" /\ ret' = 0
    /\ UNCHANGED <<regs, running, mode12_24, am_pm, clockout_en,
                   default_out_state, clockout_divider, arg, regAddress,
                   formatAssigned, conv>>

ReadTimeRequest(avail) ==
    /\ pc = "rt_request"
    /\ pc' = "idle"
    /\ busLog' = Append(busLog, Req(avail >= 7))
    /\ IF avail < 7
       THEN /\ ret' = 0
            /\ UNCHANGED <<out, mode12_24, am_pm, formatAssigned>>
       ELSE /\ out' = <<readTimeDecode>>
            /\ mode12_24' = decodeHourRegister(regs[2]).mode12_24
            /\ am_pm' = decodeHourRegister(regs[2]).am_pm
            /\ formatAssigned' = TRUE
            /\ ret' = readTimeResult(regs[0])
    /\ UNCHANGED <<regs, lastTx, present, running, clockout_en,
                   default_out_state, clockout_divider, op, arg,
                   regAddress, written, presentBefore, configured, conv>>

(***************************************************************************)
(* writeTime                                                               *)
(***************************************************************************)
\* Variant that sends the true seconds instead of the halt byte.
firstBurst_NoHalt(tm) ==
    <<dToBcd(tm.Second), dToBcd(tm.Minute), encodeHourRegister(tm.Hour),
      dToBcd(tm.Wday), dToBcd(tm.Day), dToBcd(tm.Month),
      tmYearToY2k(tm.Year)>>

\* The six bytes that follow the register pointer in the first transmission.
firstBurst(tm) ==
    <<128, dToBcd(tm.Minute), encodeHourRegister(tm.Hour), dToBcd(tm.Wday),
      dToBcd(tm.Day), dToBcd(tm.Month), tmYearToY2k(tm.Year)>>

\* Variant that keeps the clock-halt bit in the seconds byte.
secondsByte_KeepCH(tm) == BitOr(dToBcd(tm.Second), 128)

\* The byte that follows the register pointer in the second transmission.
secondsByte(tm) == dToBcd(tm.Second)

\* Variant that goes on to the second transmission whatever the status
\* of the first.
WriteTimeFirst_NoCheck(tm, ok) ==
    /\ pc = "idle"
    /\ op' = "writeTime"
    /\ busLog' = <<Tx(ok)>>
    /\ lastTx' = TxOutcome(ok)
    /\ presentBefore' = present
    /\ written' = <<>>
    /\ configured' = KeepConfigured
    /\ out' = <<>>
    /\ regs' = IF ok
               THEN [i \in 0 .. 7 |->
                       IF i <= 6 THEN firstBurst(tm)[i + 1] ELSE regs[i]]
               ELSE regs
    /\ pc' = "wt_second"
    /\ arg' = <<tm>>
    /\ UNCHANGED <<present, ret, running, mode12_24, am_pm, clockout_en,
                   default_out_state, clockout_divider, regAddress,
                   formatAssigned, conv>>

WriteTimeFirst(tm, ok) ==
    /\ pc = "idle"
    /\ op' = "writeTime"
    /\ busLog' = <<Tx(ok)>>
    /\ lastTx' = TxOutcome(ok)
    /\ presentBefore' = present
    /\ written' = <<>>
    /\ configured' = KeepConfigured
    /\ out' = <<>>
    /\ IF ok
       THEN /\ regs' = [i \in 0 .. 7 |->
                          IF i <= 6 THEN firstBurst(tm)[i + 1] ELSE regs[i]]
            /\ pc' = "wt_second"
            /\ arg' = <<tm>>
            /\ UNCHANGED <<present, ret>>
       ELSE /\ present' = FALSE
            /\ ret' = 0
            /\ pc' = "idle"
            /\ arg' = <<>>
            /\ UNCHANGED regs
    /\ UNCHANGED <<running, mode12_24, am_pm, clockout_en,
                   default_out_state, clockout_divider, regAddress,
                   formatAssigned, conv>>

WriteTimeSecond(ok) ==
    /\ pc = "wt_second"
    /\ pc' = "idle"
    /\ busLog' = Append(busLog, Tx(ok))
    /\ lastTx' = TxOutcome(ok)
    /\ arg' = <<>>
    /\ IF ok
       THEN /\ regs' = [regs EXCEPT ![0] = secondsByte(arg[1])]
            /\ present' = TRUE
            /\ ret' = 1
            /\ written' = <<[tm |-> arg[1], mode12_24 |-> mode12_24,
                             am_pm |-> am_pm]>>
       ELSE /\ present' = FALSE
            /\ ret' = 0
            /\ written' = <<>>
            /\ UNCHANGED regs
    /\ UNCHANGED <<running, mode12_24, am_pm, clockout_en,
                   default_out_state, clockout_divider, op, regAddress,
                   out, presentBefore, configured, formatAssigned, conv>>

(***************************************************************************)
(* readReg / writeReg and the operations built on them                     *)
(***************************************************************************)
\* First half of readReg: the pointer transmission, its status ignored.
readRegPointer(name, addr, ok) ==
    /\ pc = "idle"
    /\ pc' = "rr_request"
    /\ op' = name
    /\ regAddress' = addr
    /\ busLog' = <<Tx(ok)>>
    /\ lastTx' = TxOutcome(ok)
    /\ presentBefore' = present
    /\ written' = KeepWritten
    /\ configured' = KeepConfigured
    /\ out' = <<>>
    /\ UNCHANGED <<regs, present, running, mode12_24, am_pm, clockout_en,
                   default_out_state, clockout_divider, arg, ret,
                   formatAssigned, conv>>

\* The bytes the one-byte request of readReg can return.  A chip whose
\* pointer transmission was not acknowledged still holds the register
\* pointer an earlier transaction left, so it answers with whichever
\* register that pointer selects.
\* Variant whose sentinel for a failed read is 0x00.
readRegValues_ZeroSentinel(avail) ==
    IF avail = 0 THEN {0}
    ELSE IF busLog[1].ok THEN {regs[regAddress]}
    ELSE {regs[i] : i \in 0 .. 7}

readRegValues(avail) ==
    IF avail = 0 THEN {255}
    ELSE IF busLog[1].ok THEN {regs[regAddress]}
    ELSE {regs[i] : i \in 0 .. 7}

\* Second half of readReg, common to its three callers.
readRegRequest(name, avail) ==
    /\ pc = "rr_request"
    /\ op = name
    /\ pc' = "idle"
    /\ busLog' = Append(busLog, Req(avail >= 1))
    /\ UNCHANGED <<regs, lastTx, present, running, op, arg, regAddress,
                   out, written, presentBefore, configured, formatAssigned,
                   conv>>

\* Variant that returns the clock-halt bit itself.
isRunningResult_NotInverted(secondsRegister) ==
    IF BitAnd(secondsRegister, 128) # 0 THEN 1 ELSE 0

isRunningResult(secondsRegister) ==
    IF BitAnd(secondsRegister, 128) # 0 THEN 0 ELSE 1

IsRunning(ok) == readRegPointer("isRunning", 0, ok)

IsRunningReturn(avail) ==
    /\ readRegRequest("isRunning", avail)
    /\ \E v \in readRegValues(avail) : ret' = isRunningResult(v)
    /\ UNCHANGED <<mode12_24, am_pm, clockout_en, default_out_state,
                   clockout_divider>>

ReadReg(addr, ok) == readRegPointer("readReg", addr, ok)

ReadRegReturn(avail) ==
    /\ readRegRequest("readReg", avail)
    /\ \E v \in readRegValues(avail) : ret' = v
    /\ UNCHANGED <<mode12_24, am_pm, clockout_en, default_out_state,
                   clockout_divider>>

UpdateClockOut(ok) == readRegPointer("updateClockOut", 7, ok)

UpdateClockOutReturn(avail) ==
    /\ readRegRequest("updateClockOut", avail)
    /\ \E reg \in readRegValues(avail) :
          /\ default_out_state' = Bool(BitAnd(reg, 128))
          /\ clockout_en' = Bool(BitAnd(reg, 16))
          /\ clockout_divider' = BitAnd(reg, 3)
    /\ ret' = 0
    /\ UNCHANGED <<mode12_24, am_pm>>

\* Variant that records the status of the transmission in present.
writeReg_SetsPresent(name, addr, value, ok) ==
    /\ pc = "idle"
    /\ op' = name
    /\ busLog' = <<Tx(ok)>>
    /\ lastTx' = TxOutcome(ok)
    /\ regs' = IF ok THEN [regs EXCEPT ![addr] = value] ELSE regs
    /\ presentBefore' = present
    /\ present' = ok
    /\ written' = KeepWritten
    /\ configured' =
          IF name # "configureClockOut" THEN KeepConfigured
          ELSE IF ok THEN <<[en |-> clockout_en, level |-> default_out_state,
                             divider |-> clockout_divider]>>
          ELSE <<>>
    /\ out' = <<>>
    /\ ret' = 0
    /\ UNCHANGED <<running, mode12_24, am_pm, clockout_en,
                   default_out_state, clockout_divider, pc, arg, regAddress,
                   formatAssigned, conv>>

\* writeReg: one transmission, its status ignored.
writeReg(name, addr, value, ok) ==
    /\ pc = "idle"
    /\ op' = name
    /\ busLog' = <<Tx(ok)>>
    /\ lastTx' = TxOutcome(ok)
    /\ regs' = IF ok THEN [regs EXCEPT ![addr] = value] ELSE regs
    /\ presentBefore' = present
    /\ written' = KeepWritten
    /\ configured' =
          IF name # "configureClockOut" THEN KeepConfigured
          ELSE IF ok THEN <<[en |-> clockout_en, level |-> default_out_state,
                             divider |-> clockout_divider]>>
          ELSE <<>>
    /\ out' = <<>>
    /\ ret' = 0
    /\ UNCHANGED <<present, running, mode12_24, am_pm, clockout_en,
                   default_out_state, clockout_divider, pc, arg, regAddress,
                   formatAssigned, conv>>

WriteReg(addr, value, ok) == writeReg("writeReg", addr, value, ok)

\* Variant that puts the square-wave enable in bit3.
configureClockOutReg_WrongBit ==
    BitOr(BitOr(IF default_out_state THEN 128 ELSE 0,
                IF clockout_en THEN 8 ELSE 0),
          BitAnd(clockout_divider, 3))

configureClockOutReg ==
    BitOr(BitOr(IF default_out_state THEN 128 ELSE 0,
                IF clockout_en THEN 16 ELSE 0),
          BitAnd(clockout_divider, 3))

ConfigureClockOut(ok) ==
    writeReg("configureClockOut", 7, configureClockOutReg, ok)

(***************************************************************************)
(* The caller assigning the public static fields                           *)
(***************************************************************************)
SetHourFormat(m, p) ==
    /\ pc = "idle"
    /\ op' = "setHourFormat"
    /\ mode12_24' = m
    /\ am_pm' = p
    /\ busLog' = <<>>
    /\ written' = <<>>
    /\ out' = <<>>
    /\ ret' = 0
    /\ presentBefore' = present
    /\ configured' = <<>>
    /\ formatAssigned' = TRUE
    /\ UNCHANGED <<regs, lastTx, present, running, clockout_en,
                   default_out_state, clockout_divider, pc, arg, regAddress,
                   conv>>

SetClockOut(en, level, divider) ==
    /\ pc = "idle"
    /\ op' = "setClockOut"
    /\ clockout_en' = en
    /\ default_out_state' = level
    /\ clockout_divider' = divider
    /\ busLog' = <<>>
    /\ written' = <<>>
    /\ out' = <<>>
    /\ ret' = 0
    /\ presentBefore' = present
    /\ configured' = <<>>
    /\ UNCHANGED <<regs, lastTx, present, running, mode12_24, am_pm,
                   pc, arg, regAddress, formatAssigned, conv>>

(***************************************************************************)
(* Specification                                                           *)
(***************************************************************************)
Next ==
    \/ \E ok \in BOOLEAN : ReadTimePointer(ok)
    \/ \E avail \in 0 .. 7 : ReadTimeRequest(avail)
    \/ \E tm \in TmInputs, ok \in BOOLEAN : WriteTimeFirst(tm, ok)
    \/ \E ok \in BOOLEAN : WriteTimeSecond(ok)
    \/ \E ok \in BOOLEAN : IsRunning(ok)
    \/ \E avail \in 0 .. 1 : IsRunningReturn(avail)
    \/ \E addr \in ReadRegInputs, ok \in BOOLEAN : ReadReg(addr, ok)
    \/ \E avail \in 0 .. 1 : ReadRegReturn(avail)
    \/ \E w \in WriteRegInputs, ok \in BOOLEAN : WriteReg(w[1], w[2], ok)
    \/ \E m \in BOOLEAN, p \in BOOLEAN : SetHourFormat(m, p)

Spec == Init /\ [][Next]_vars

\* The clock-out path next to the time path: every operation of the
\* driver, the time written being the scenario value.
NextClockOut ==
    \/ \E ok \in BOOLEAN : ReadTimePointer(ok)
    \/ \E avail \in 0 .. 7 : ReadTimeRequest(avail)
    \/ \E ok \in BOOLEAN : WriteTimeFirst(TmScenario, ok)
    \/ \E ok \in BOOLEAN : WriteTimeSecond(ok)
    \/ \E ok \in BOOLEAN : IsRunning(ok)
    \/ \E avail \in 0 .. 1 : IsRunningReturn(avail)
    \/ \E addr \in ReadRegInputs, ok \in BOOLEAN : ReadReg(addr, ok)
    \/ \E avail \in 0 .. 1 : ReadRegReturn(avail)
    \/ \E w \in WriteRegInputs, ok \in BOOLEAN : WriteReg(w[1], w[2], ok)
    \/ \E ok \in BOOLEAN : ConfigureClockOut(ok)
    \/ \E ok \in BOOLEAN : UpdateClockOut(ok)
    \/ \E avail \in 0 .. 1 : UpdateClockOutReturn(avail)
    \/ \E c \in ClockOutInputs : SetClockOut(c[1], c[2], c[3])

SpecClockOut == Init /\ [][NextClockOut]_vars

\* The two conversions called on their own, over the whole domain the
\* driver documents for them.
BcdDomain == 0 .. 99

DToBcd(num) ==
    /\ pc = "idle"
    /\ conv' = <<num, dToBcd(num)>>
    /\ UNCHANGED <<regs, lastTx, busLog, present, running, mode12_24, am_pm,
                   clockout_en, default_out_state, clockout_divider, pc, op,
                   arg, regAddress, ret, out, written, presentBefore,
                   configured, formatAssigned>>

BcdToD ==
    /\ pc = "idle"
    /\ Len(conv) = 2
    /\ conv' = Append(conv, bcdToD(conv[2]))
    /\ UNCHANGED <<regs, lastTx, busLog, present, running, mode12_24, am_pm,
                   clockout_en, default_out_state, clockout_divider, pc, op,
                   arg, regAddress, ret, out, written, presentBefore,
                   configured, formatAssigned>>

NextBcd ==
    \/ \E num \in BcdDomain : DToBcd(num)
    \/ BcdToD

SpecBcd == Init /\ [][NextBcd]_vars

(***************************************************************************)
(* Properties                                                              *)
(***************************************************************************)
\* Binary-coded decimal as the register map defines it.
BcdOf(n) == (n \div 10) * 16 + (n % 10)
\* An hour of the day on the 12-hour dial.
Hour12(h) == IF h % 12 = 0 THEN 12 ELSE h % 12
Bit7(b) == BitAnd(b, 128) # 0
BusWorked == \A i \in 1 .. Len(busLog) : busLog[i].ok
\* A readTime / writeTime / readReg call has returned.
Returned(name) == pc = "idle" /\ op = name
\* The call that returned is a readTime that received its 7 bytes.
ReadAll == Returned("readTime") /\ Len(busLog) = 2 /\ BusWorked
\* The call that returned is a readTime whose burst came up short.
ReadShort ==
    Returned("readTime") /\ Len(busLog) = 2
    /\ busLog[1].ok /\ ~busLog[2].ok

\* C1: an hour h in 0..23 written with the PM flag set to (h >= 12), in
\* either mode, and read straight back through the hour register decodes
\* to h, midnight and noon included.
C1_HourRoundTrip ==
    (ReadAll /\ written # <<>>
     /\ written[1].am_pm = (written[1].tm.Hour >= 12))
        => out[1].Hour = written[1].tm.Hour

\* C2: a readTime on a working bus that immediately follows a successful
\* writeTime returns success and hands back every field as written.
C2_WriteReadRoundTrip ==
    (ReadAll /\ written # <<>>)
        => ret = 1 /\ out = <<written[1].tm>>

\* C3: after a successful writeTime in 24-hour mode registers 0x00..0x06
\* hold the BCD of second, minute, hour, weekday, day, month and the year
\* counted from 2000; the 2025-01-27 13:05:00 scenario leaves
\* 00 05 13 02 27 01 25 (hex).
C3_RegistersHoldBcd ==
    (Returned("writeTime") /\ ret = 1 /\ ~mode12_24)
        => LET tm == written[1].tm
           IN  /\ <<regs[0], regs[1], regs[2], regs[3], regs[4], regs[5],
                    regs[6]>>
                  = <<BcdOf(tm.Second), BcdOf(tm.Minute), BcdOf(tm.Hour),
                      BcdOf(tm.Wday), BcdOf(tm.Day), BcdOf(tm.Month),
                      BcdOf(tm.Year - 30)>>
               /\ tm = TmScenario
                    => <<regs[0], regs[1], regs[2], regs[3], regs[4],
                         regs[5], regs[6]>> = <<0, 5, 19, 2, 39, 1, 37>>

\* C4: in 12-hour mode the hour byte writeTime has sent has bit6 set,
\* bits4:0 the BCD of the hour on the 12-hour dial, and bit5 set exactly
\* when the hour is 12 or later, whatever ran before.
C4_HourByte12 ==
    (pc = "wt_second" /\ mode12_24)
        => LET b == regs[2]
               h == arg[1].Hour
           IN  /\ BitAnd(b, 64) = 64
               /\ BitAnd(b, 31) = BcdOf(Hour12(h))
               /\ (BitAnd(b, 32) = 32) <=> (h >= 12)

\* C5: present always equals the outcome of the most recent transmission,
\* whichever operation issued it.
C5_PresentTracksLastTx ==
    /\ lastTx = "fail" => ~present
    /\ lastTx = "ok" => present

\* C6: when the pointer transmission of readTime or writeTime is not
\* acknowledged the call returns failure, present is false, and that
\* transmission is the only bus phase of the call.
C6_PointerNakAborts ==
    ((Returned("readTime") \/ Returned("writeTime"))
     /\ Len(busLog) >= 1 /\ ~busLog[1].ok)
        => ret = 0 /\ ~present /\ Len(busLog) = 1

C6_Witness ==
    /\ Returned("readTime") \/ Returned("writeTime")
    /\ Len(busLog) = 1 /\ ~busLog[1].ok
    /\ presentBefore

\* C7: a readTime that received a seconds byte with bit7 set returns
\* failure, whatever the other six bytes are.
C7_HaltedReadFails ==
    (ReadAll /\ Bit7(regs[0])) => ret = 0

C7_Witness ==
    /\ ReadAll /\ Bit7(regs[0])
    /\ out[1].Hour = 13 /\ out[1].Minute = 5

\* C8 as stated: after a short read present has the value it had before
\* the call.
C8_ShortReadPresentUntouched ==
    ReadShort => ret = 0 /\ present = presentBefore

\* C8 amended: after a short read readTime has returned failure and
\* present is true, the value the acknowledged pointer transmission gave
\* it, whatever it was before the call.
C8_ShortReadPresentTrue ==
    ReadShort => ret = 0 /\ present

C8_Witness == ReadShort /\ ~presentBefore

\* C9: when the first transmission of writeTime is acknowledged and the
\* second is not, the call returns failure, present is false, the seconds
\* register still has bit7 set, and no third transmission is made.
C9_PartialWriteLeavesHalted ==
    (Returned("writeTime") /\ Len(busLog) >= 2
     /\ busLog[1].ok /\ ~busLog[2].ok)
        => ret = 0 /\ ~present /\ Bit7(regs[0]) /\ Len(busLog) = 2

C9_Witness ==
    /\ Returned("writeTime") /\ Len(busLog) = 2
    /\ busLog[1].ok /\ ~busLog[2].ok
    /\ presentBefore

\* C10: a writeTime whose two transmissions are acknowledged returns
\* success with present true and bit7 of the seconds register clear, and
\* an isRunning that follows at once on a working bus reports running.
C10_SuccessfulWriteRestarts ==
    /\ (Returned("writeTime") /\ Len(busLog) = 2 /\ BusWorked)
          => ret = 1 /\ present /\ ~Bit7(regs[0])
    /\ (Returned("isRunning") /\ written # <<>> /\ BusWorked)
          => ret = 1

C10_Witness ==
    /\ Returned("isRunning") /\ written # <<>> /\ BusWorked
    /\ written[1].tm.Second = 59

\* The call that returned is a readReg-based one whose one-byte request
\* delivered nothing.
RegReadFailed(name) ==
    Returned(name) /\ Len(busLog) = 2 /\ ~busLog[2].ok

C12_RunningReflectsCH ==
    ((ReadAll \/ (Returned("isRunning") /\ BusWorked)))
        => running = ~Bit7(regs[0])

\* The hour-register bytes the chip defines: 24-hour mode with BCD 00..23,
\* 12-hour mode with BCD 01..12 and either AM or PM.
ValidHourRegs ==
    {BcdOf(n) : n \in 0 .. 23}
    \cup {64 + 32 * pm + BcdOf(n) : n \in 1 .. 12, pm \in 0 .. 1}

\* C13: a valid hour-register byte, decoded by readTime and encoded again
\* under the mode and PM flag the decode left, is the same byte; so a
\* writeTime of the hour just read sends the hour register it was read from.
C13_DecodeEncodeRoundTrip ==
    /\ [](ReadAll /\ regs[2] \in ValidHourRegs
            => encodeHourRegister(out[1].Hour) = regs[2])
    /\ [][(ReadAll /\ regs[2] \in ValidHourRegs
           /\ pc' = "wt_second" /\ arg'[1].Hour = out[1].Hour)
              => regs'[2] = regs[2]]_vars

\* Noon in 12-hour mode (0x72) has been read.
C13_Witness == ReadAll /\ regs[2] = 114 /\ out[1].Hour = 0

\* C14: for n in 0..99 bcdToD(dToBcd(n)) is n, and dToBcd(n) carries the
\* tens digit in its high nibble and the units digit in its low nibble.
C14_BcdRoundTrip ==
    /\ Len(conv) >= 2
          => conv[2] \div 16 = conv[1] \div 10 /\ conv[2] % 16 = conv[1] % 10
    /\ Len(conv) = 3 => conv[3] = conv[1]

C14_Witness == Len(conv) = 3 /\ conv[1] = 99

\* C15: configureClockOut sends one transmission that leaves in register
\* 0x07 the default level in bit7, the enable in bit4, the divider (0..3)
\* in bits1:0 and nothing else; an updateClockOut that follows it, both on
\* a working bus, leaves enable, level and divider as they were before the
\* configureClockOut.
C15_ClockOutRoundTrip ==
    /\ (Returned("configureClockOut") /\ BusWorked
        /\ clockout_divider \in 0 .. 3)
          => /\ Len(busLog) = 1
             /\ regs[7] = (IF default_out_state THEN 128 ELSE 0)
                          + (IF clockout_en THEN 16 ELSE 0)
                          + clockout_divider
    /\ (Returned("updateClockOut") /\ BusWorked /\ configured # <<>>
        /\ configured[1].divider \in 0 .. 3)
          => /\ clockout_en = configured[1].en
             /\ default_out_state = configured[1].level
             /\ clockout_divider = configured[1].divider

C15_Witness ==
    /\ Returned("updateClockOut") /\ BusWorked /\ configured # <<>>
    /\ configured[1] = [en |-> TRUE, level |-> FALSE, divider |-> 1]

\* C16: between the two transmissions of a writeTime the first one has
\* been acknowledged and has left 0x80 in register 0x00 (clock-halt set)
\* next to minute .. year of the argument; within writeTime register 0x00
\* takes the true seconds only by the second transmission, which is made
\* only after the first was acknowledged.
C16_HaltWindow ==
    /\ [](pc = "wt_second"
            => /\ busLog = <<Tx(TRUE)>>
               /\ Bit7(regs[0])
               /\ <<regs[0], regs[1], regs[2], regs[3], regs[4], regs[5],
                    regs[6]>>
                  = <<128, BcdOf(arg[1].Minute),
                      encodeHourRegister(arg[1].Hour), BcdOf(arg[1].Wday),
                      BcdOf(arg[1].Day), BcdOf(arg[1].Month),
                      arg[1].Year - 30>>)
    /\ [][(op' = "writeTime" /\ regs'[0] # regs[0])
            => \/ pc = "idle" /\ pc' = "wt_second" /\ regs'[0] = 128
               \/ /\ pc = "wt_second" /\ busLog[1].ok
                  /\ busLog' = <<Tx(TRUE), Tx(TRUE)>>
                  /\ regs'[0] = BcdOf(arg[1].Second)]_vars

C16_Witness ==
    pc = "wt_second" /\ arg[1].Second = 59 /\ regs[0] = 128

\* C17: a step of configureClockOut or updateClockOut leaves registers
\* 0x00..0x06, present, mode12_24 and am_pm as they were; a step of
\* readTime or writeTime leaves register 0x07 and clockout_en,
\* default_out_state and clockout_divider as they were.
C17_PathsDoNotInteract ==
    [][/\ op' \in {"configureClockOut", "updateClockOut"}
          => /\ \A i \in 0 .. 6 : regs'[i] = regs[i]
             /\ UNCHANGED <<present, mode12_24, am_pm>>
       /\ op' \in {"readTime", "writeTime"}
          => /\ regs'[7] = regs[7]
             /\ UNCHANGED <<clockout_en, default_out_state,
                            clockout_divider>>]_vars

\* Both paths have acted: the control register and the clock-out fields
\* were set after a readTime found the chip in 12-hour mode.
C17_Witness ==
    /\ Returned("updateClockOut") /\ BusWorked /\ configured # <<>>
    /\ present /\ mode12_24 /\ clockout_en /\ regs[7] = 17

\* C18: after a readTime that received its 7 bytes, failed for clock-halt
\* or not, mode12_24 is bit6 of the hour register and am_pm is bit6 and
\* bit5; no other step of the driver changes mode12_24 or am_pm; and a
\* writeTime made while they still have their initial values sends the
\* hour in 24-hour BCD.
C18_HourFormatFrame ==
    /\ [](ReadAll
            => /\ mode12_24 = (BitAnd(regs[2], 64) # 0)
               /\ am_pm = (BitAnd(regs[2], 64) # 0
                           /\ BitAnd(regs[2], 32) # 0))
    /\ [][(op' # "setHourFormat"
           /\ <<mode12_24, am_pm>>' # <<mode12_24, am_pm>>)
            => /\ op' = "readTime" /\ pc = "rt_request"
               /\ busLog'[2].ok]_vars
    /\ [](pc = "wt_second" /\ ~formatAssigned
            => regs[2] = BcdOf(arg[1].Hour))

\* A halted chip in 12-hour mode, PM, has been read: the call failed and
\* the format state followed the register all the same.
C18_Witness ==
    ReadAll /\ ret = 0 /\ mode12_24 /\ am_pm /\ BitAnd(regs[2], 96) = 96

\* C19: when the read of the control register delivers no byte,
\* updateClockOut unpacks 0xFF: clockout_en and default_out_state are true
\* and clockout_divider is 3, and nothing tells the caller (no value is
\* returned and present is as it was).
C19_UpdateUnpacksSentinel ==
    RegReadFailed("updateClockOut")
        => /\ clockout_en /\ default_out_state /\ clockout_divider = 3
           /\ ret = 0 /\ present = presentBefore

\* The fields held (false, true, 2), just written to the chip, and the
\* failed read replaced them.
C19_Witness ==
    /\ RegReadFailed("updateClockOut") /\ configured # <<>>
    /\ configured[1] = [en |-> FALSE, level |-> TRUE, divider |-> 2]
    /\ regs[7] = 130

====
